---------------------------- MODULE Spec2Model ----------------------------
(***************************************************************************)
(* A model of the GPM topology / global-numbering preprocessor:            *)
(*   - Line::getLineEnumeration and Line::equals      (src/src/Line.cpp)    *)
(*   - the command-line driver main_getPROP.cpp       (src/unnamed/part_000)*)
(*   - SplineModel::generateGlobalNumbers, of which only the declaration    *)
(*     and the volGlobNumber record are in src/include/SplineModel.h.       *)
(***************************************************************************)
EXTENDS Integers, Sequences, FiniteSets, TLC

(***************************************************************************)
(* Bounds of the model.                                                    *)
(***************************************************************************)
\* longest control-point sequence of a Line
MaxLen == 4
\* control points lie on the grid 0, 2, ..., 2*MaxCoord of one axis
MaxCoord == 1
\* tolerances 0..MaxTol
MaxTol == 2
\* most command-line arguments after the program name
MaxArgs == 3
\* most characters on standard input
MaxInput == 3
\* the canonical vertices of an assembly
MaxVerts == 2
\* most interior control points of a line, and of a face in each direction
MaxInterior == 2

VARIABLES
    op,         \* Line.cpp: the member function called ("none": no call)
    vert1,      \* getLineEnumeration: first corner argument
    vert2,      \* getLineEnumeration: second corner argument
    this_cp,    \* equals: this->cp, the control points of the receiver
    l_cp,       \* equals: l->cp, the control points of the argument
    tol,        \* equals: the tolerance argument
    ret,        \* the value the call returned
    returned,   \* the call has returned
    pc,         \* driver: where main is ("args", "enforce", "props", "interactive", "exited")
    argv,       \* driver: argv[1..argc-1]
    argi,       \* driver: the loop index of processParameters
    verbose,    \* driver: global verbose
    inFile,     \* driver: global inFile
    inFileName, \* driver: global inFileName
    fileRead,   \* driver: local fileRead of processParameters
    exitStatus, \* driver: the status the process ended with
    exitLine,   \* driver: the source line of the exit or return taken (0: none)
    enforced,   \* driver: model.enforceRightHandSystem() was called
    reparamWritten, \* driver: reparameterized.g2 was written
    cin,        \* driver: the characters of standard input
    cinPos,     \* driver: characters of cin consumed
    cinEof,     \* driver: eofbit of cin
    cinFail,    \* driver: failbit of cin
    str,        \* driver: local str of main
    passed,     \* driver: the lines handed to readModelProperties, in order
    propsFromFile,  \* driver: readModelProperties(fs) was called
    propsWritten,   \* driver: writeModelProperties(cout) was called
    nVerts,     \* topology: the number of canonical vertices
    vref,       \* topology: the canonical vertex in each patch's corner slot
    lineN,      \* topology: interior control points of the canonical line
    faceI,      \* topology: interior extent of the canonical face, first direction
    faceJ,      \* topology: interior extent of the canonical face, second direction
    edge_cp,    \* patch: the line's control points in the patch's own traversal order
    face_cp,    \* patch: the face's control points on the patch's own (i, j) grid
    vl2g,       \* SplineModel::vl2g, one volGlobNumber for each patch
    numbered    \* generateGlobalNumbers has run

lineVars == <<op, vert1, vert2, this_cp, l_cp, tol, ret, returned>>

paramVars == <<argv, argi, verbose, inFile, inFileName, fileRead>>

cinVars == <<cin, cinPos, cinEof, cinFail, str, passed>>

mainVars == <<pc, paramVars, exitStatus, exitLine, enforced, reparamWritten,
              cinVars, propsFromFile, propsWritten>>

topoVars == <<nVerts, vref, lineN, faceI, faceJ, edge_cp, face_cp>>

gnoVars == <<topoVars, vl2g, numbered>>

vars == <<lineVars, mainVars, gnoVars>>

(***************************************************************************)
(* Values                                                                  *)
(***************************************************************************)
\* local corner numbers of a hexahedron, corner = u + 2v + 4w
Corners == 0..7

\* Go::Point restricted to one axis: the coordinate of grid point c
Points == {2 * c : c \in 0..MaxCoord}

Tols == 0..MaxTol

\* std::vector<Point> cp of a Line: non-empty sequences of points
CpSeqs == UNION {[1..n -> Points] : n \in 1..MaxLen}

Abs(x) == IF x < 0 THEN -x ELSE x

Min(x, y) == IF x < y THEN x ELSE y

\* Go::Point::dist, the euclidean distance (on one axis)
Dist(p, q) == Abs(p - q)

\* the same control points in the opposite traversal order
Reverse(s) == [k \in 1..Len(s) |-> s[Len(s) + 1 - k]]


(***************************************************************************)
(* Line::getLineEnumeration (Line.cpp 63-77)                               *)
(***************************************************************************)
\* the value returned for "no valid vertex combination"
InvalidLine == -1

\* the classification of the ordered pair lo <= hi (Line.cpp 69-76)
ClassifyNoWLine(lo, hi) ==
    IF hi - lo = 1 THEN lo \div 2
    ELSE IF hi - lo = 2 THEN (hi + lo) \div 4 + 4
    ELSE InvalidLine

ClassifyVByLow(lo, hi) ==
    IF hi - lo = 1 THEN lo \div 2
    ELSE IF hi - lo = 2 THEN lo \div 2 + 4
    ELSE IF hi - lo = 4 THEN lo + 8
    ELSE InvalidLine

Classify(lo, hi) ==
    IF hi - lo = 1 THEN lo \div 2                   \* u-line
    ELSE IF hi - lo = 2 THEN (hi + lo) \div 4 + 4   \* v-line
    ELSE IF hi - lo = 4 THEN lo + 8                 \* w-line
    ELSE InvalidLine                                \* no valid vertex combination

\* a version that forgets to order its arguments
GetLineEnumerationNoSwap(v1, v2) == Classify(v1, v2)

GetLineEnumeration(v1, v2) ==
    IF v2 < v1 THEN Classify(v2, v1) ELSE Classify(v1, v2)

(***************************************************************************)
(* Line::equals (Line.cpp 26-43)                                           *)
(***************************************************************************)
\* the loop of lines 30-33: both iterators advance together and the loop
\* ends when either of them reaches its end
ForwardScan(cp, lcp, t) ==
    \A k \in 1..Min(Len(cp), Len(lcp)) : ~(Dist(cp[k], lcp[k]) > t)

\* the loop of lines 36-39: this->cp is walked from its back
ReverseScan(cp, lcp, t) ==
    \A k \in 1..Min(Len(cp), Len(lcp)) : ~(Dist(cp[Len(cp) + 1 - k], lcp[k]) > t)

\* a version that trusts the end point that selected the direction
EqualsEndPointOnly(cp, lcp, t) ==
    IF Dist(lcp[1], cp[1]) < t THEN TRUE
    ELSE IF Dist(lcp[1], cp[Len(cp)]) < t THEN TRUE
    ELSE FALSE

Equals(cp, lcp, t) ==
    IF Dist(lcp[1], cp[1]) < t THEN ForwardScan(cp, lcp, t)
    ELSE IF Dist(lcp[1], cp[Len(cp)]) < t THEN ReverseScan(cp, lcp, t)
    ELSE FALSE

(***************************************************************************)
(* The calls of Line.cpp as a state machine.                               *)
(***************************************************************************)
LineIdle ==
    /\ op = "none"
    /\ returned = FALSE
    /\ vert1 = 0
    /\ vert2 = 0
    /\ this_cp = <<0>>
    /\ l_cp = <<0>>
    /\ tol = 0
    /\ ret = 0

\* a call about to be made: the function and its arguments
LineInit ==
    /\ returned = FALSE
    /\ ret = 0
    /\ \/ /\ op = "getLineEnumeration"
          /\ vert1 \in Corners
          /\ vert2 \in Corners
          /\ this_cp = <<0>>
          /\ l_cp = <<0>>
          /\ tol = 0
       \/ /\ op = "equals"
          /\ this_cp \in CpSeqs
          /\ l_cp \in CpSeqs
          /\ tol \in Tols
          /\ vert1 = 0
          /\ vert2 = 0

CallGetLineEnumeration ==
    /\ op = "getLineEnumeration"
    /\ ~returned
    /\ ret' = GetLineEnumeration(vert1, vert2)
    /\ returned' = TRUE
    /\ UNCHANGED <<op, vert1, vert2, this_cp, l_cp, tol>>

CallEquals ==
    /\ op = "equals"
    /\ ~returned
    /\ ret' = Equals(this_cp, l_cp, tol)
    /\ returned' = TRUE
    /\ UNCHANGED <<op, vert1, vert2, this_cp, l_cp, tol>>

(***************************************************************************)
(* The driver (main_getPROP.cpp): processParameters and main.              *)
(***************************************************************************)
\* the words a command-line argument may be
Args == {"-v", "-help", "-in", "ok.g2", "missing.g2"}

\* the file names ifstream::open succeeds on
Openable == {"ok.g2"}

ArgLists == UNION {[1..n -> Args] : n \in 0..MaxArgs}

\* a character of standard input: a letter or the line feed
Chars == {"a", "nl"}

Inputs == UNION {[1..n -> Chars] : n \in 0..MaxInput}

\* the interactive loop is followed for at most this many iterations
MaxCalls == MaxInput + 3

Range(f) == {f[k] : k \in DOMAIN f}

\* exit(status) reached at source line `line`
Exit(status, line) ==
    /\ pc' = "exited"
    /\ exitStatus' = status
    /\ exitLine' = line

\* std::getline(cin, str) at line 134.  The sentry fails on a stream that is
\* not good(): failbit is set and str is left as it was.  Otherwise str is
\* erased and characters are taken up to and including the next line feed;
\* reaching the end sets eofbit, and failbit too when nothing was taken.
GetLine(in, pos, eof, fail, old) ==
    IF eof \/ fail
    THEN [str |-> old, pos |-> pos, eof |-> eof, fail |-> TRUE]
    ELSE LET feeds == {k \in (pos + 1)..Len(in) : in[k] = "nl"}
         IN IF feeds # {}
            THEN LET k == CHOOSE x \in feeds : \A y \in feeds : x <= y
                 IN [str |-> SubSeq(in, pos + 1, k - 1), pos |-> k,
                     eof |-> FALSE, fail |-> FALSE]
            ELSE [str |-> SubSeq(in, pos + 1, Len(in)), pos |-> Len(in),
                  eof |-> TRUE, fail |-> (pos = Len(in))]

MainIdle ==
    /\ pc = "idle"
    /\ argv = <<>>
    /\ cin = <<>>
    /\ argi = 1
    /\ verbose = FALSE
    /\ inFile = FALSE
    /\ inFileName = ""
    /\ fileRead = FALSE
    /\ exitStatus = 0
    /\ exitLine = 0
    /\ enforced = FALSE
    /\ reparamWritten = FALSE
    /\ cinPos = 0
    /\ cinEof = FALSE
    /\ cinFail = FALSE
    /\ str = <<>>
    /\ passed = <<>>
    /\ propsFromFile = FALSE
    /\ propsWritten = FALSE

\* the process as started: globals as initialised at lines 23-25
MainInit ==
    /\ pc = "args"
    /\ argv \in ArgLists
    /\ cin \in Inputs
    /\ argi = 1
    /\ verbose = FALSE
    /\ inFile = FALSE
    /\ inFileName = ""
    /\ fileRead = FALSE
    /\ exitStatus = 0
    /\ exitLine = 0
    /\ enforced = FALSE
    /\ reparamWritten = FALSE
    /\ cinPos = 0
    /\ cinEof = FALSE
    /\ cinFail = FALSE
    /\ str = <<>>
    /\ passed = <<>>
    /\ propsFromFile = FALSE
    /\ propsWritten = FALSE

\* one iteration of the loop of processParameters (lines 39-64)
ProcessArgument ==
    /\ pc = "args"
    /\ argi <= Len(argv)
    /\ LET arg == argv[argi]
       IN IF arg = "-v"
          THEN /\ verbose' = TRUE
               /\ argi' = argi + 1
               /\ UNCHANGED <<pc, exitStatus, exitLine, inFile, inFileName, fileRead>>
          ELSE IF arg = "-help"
          THEN /\ Exit(0, 45)
               /\ UNCHANGED <<argi, verbose, inFile, inFileName, fileRead>>
          ELSE IF arg = "-in"
          THEN IF argi >= Len(argv)
               THEN /\ Exit(1, 49)
                    /\ UNCHANGED <<argi, verbose, inFile, inFileName, fileRead>>
               ELSE /\ inFileName' = argv[argi + 1]
                    /\ inFile' = TRUE
                    /\ argi' = argi + 2
                    /\ UNCHANGED <<pc, exitStatus, exitLine, verbose, fileRead>>
          ELSE IF arg \notin Openable
               THEN /\ Exit(1, 58)
                    /\ UNCHANGED <<argi, verbose, inFile, inFileName, fileRead>>
               ELSE /\ fileRead' = TRUE
                    /\ argi' = argi + 1
                    /\ UNCHANGED <<pc, exitStatus, exitLine, verbose, inFile, inFileName>>
    /\ UNCHANGED <<argv, enforced, reparamWritten, cinVars, propsFromFile, propsWritten>>

\* a version that goes on to main without any patch file read
EndOfArgumentsNoUsageExit ==
    /\ pc = "args"
    /\ argi > Len(argv)
    /\ pc' = "enforce"
    /\ UNCHANGED <<exitStatus, exitLine>>
    /\ UNCHANGED <<paramVars, enforced, reparamWritten, cinVars, propsFromFile,
                   propsWritten>>

\* the end of processParameters (lines 65-69)
EndOfArguments ==
    /\ pc = "args"
    /\ argi > Len(argv)
    /\ IF ~fileRead
       THEN Exit(1, 67)
       ELSE /\ pc' = "enforce"
            /\ UNCHANGED <<exitStatus, exitLine>>
    /\ UNCHANGED <<paramVars, enforced, reparamWritten, cinVars, propsFromFile,
                   propsWritten>>

\* main, lines 103-119: orientation enforcement (its answer is the model's,
\* either one here), reparameterized.g2 when it changed something, the counts
EnforceRightHandSystem ==
    /\ pc = "enforce"
    /\ \E changed \in BOOLEAN :
        /\ enforced' = TRUE
        /\ reparamWritten' = changed
    /\ pc' = IF inFile THEN "props" ELSE "interactive"
    /\ UNCHANGED <<paramVars, exitStatus, exitLine, cinVars, propsFromFile, propsWritten>>

\* main, lines 121-129 and 140-141: the properties come from the -in file
ReadPropertiesFromFile ==
    /\ pc = "props"
    /\ IF inFileName \notin Openable
       THEN /\ Exit(1, 126)
            /\ UNCHANGED <<propsFromFile, propsWritten>>
       ELSE /\ propsFromFile' = TRUE
            /\ propsWritten' = TRUE
            /\ Exit(0, 141)
    /\ UNCHANGED <<paramVars, enforced, reparamWritten, cinVars>>

\* main, lines 132-137 (and 140-141 when the loop ends): one iteration of
\* the do-while loop over standard input
InteractiveIteration ==
    /\ pc = "interactive"
    /\ Len(passed) < MaxCalls
    /\ LET g == GetLine(cin, cinPos, cinEof, cinFail, str)
       IN /\ str' = g.str
          /\ cinPos' = g.pos
          /\ cinEof' = g.eof
          /\ cinFail' = g.fail
          /\ passed' = Append(passed, g.str)
          /\ IF Len(g.str) > 0
             THEN UNCHANGED <<pc, exitStatus, exitLine, propsWritten>>
             ELSE /\ propsWritten' = TRUE
                  /\ Exit(0, 141)
    /\ UNCHANGED <<paramVars, cin, enforced, reparamWritten, propsFromFile>>

(***************************************************************************)
(* Global numbering.  SplineModel::generateGlobalNumbers is declared in    *)
(* SplineModel.h (line 73) and defined outside src/; the model follows the *)
(* two-phase algorithm of the design document.  An assembly here is two    *)
(* patches whose hexahedra meet in one canonical line and one canonical    *)
(* face and carry one corner each; a control point is named by its place   *)
(* in the canonical entity's stored order.                                 *)
(***************************************************************************)
Patches == {1, 2}

\* the canonical line's control points in stored order, end points included
CanonLine(n) == [k \in 1..(n + 2) |-> k - 1]

\* a parametrization of the face relative to the canonical one: the axes
\* swapped or not, each local direction reversed or not
Orientations == [swap : BOOLEAN, revI : BOOLEAN, revJ : BOOLEAN]

\* the extents (end points included) of the local grid of a face under o
LocalExtI(o, I, J) == IF o.swap THEN J + 2 ELSE I + 2

LocalExtJ(o, I, J) == IF o.swap THEN I + 2 ELSE J + 2

\* the control point (canonical place) at local place (i, j) under o
LocalToCanon(o, I, J, i, j) ==
    IF o.swap
    THEN <<IF o.revJ THEN I + 1 - j ELSE j, IF o.revI THEN J + 1 - i ELSE i>>
    ELSE <<IF o.revI THEN I + 1 - i ELSE i, IF o.revJ THEN J + 1 - j ELSE j>>

\* the control points of the face as the patch sees them under o
LocalGrid(o, I, J) ==
    [x \in (0..(LocalExtI(o, I, J) - 1)) \X (0..(LocalExtJ(o, I, J) - 1))
        |-> LocalToCanon(o, I, J, x[1], x[2])]

\* struct volGlobNumber, one slot of each kind
VolGlobNumber(v, e, ei, f, fi, fj) ==
    [vertex |-> v, edge |-> e, edge_incr |-> ei,
     surface |-> f, surface_incr_i |-> fi, surface_incr_j |-> fj]

NoNumbers == [p \in Patches |-> VolGlobNumber(0, 0, 0, 0, 0, 0)]

\* phase 1: canonical vertices take 0..nVerts-1, then the line's interior
\* points take the next lineN numbers, then the face's interior points
VertexNumber(v) == v - 1

LineStart(nv) == nv

FaceStart(nv, n) == nv + n

\* phase 2, an edge slot to a line of n interior points numbered from start:
\* <<start, increment>> from the patch's traversal cps against the stored order
EdgeMapReversedFromStart(cps, n, start) ==
    IF cps[1] = CanonLine(n)[1] THEN <<start, 1>> ELSE <<start, -1>>

EdgeMap(cps, n, start) ==
    IF cps[1] = CanonLine(n)[1]
    THEN <<start, 1>>
    ELSE <<start + n - 1, -1>>

\* phase 2, a face slot to a face of I x J interior points numbered from
\* start, first direction fastest: <<start, increment i, increment j>>
FaceMap(grid, I, J, start) ==
    LET origin == grid[<<0, 0>>]
        li == Cardinality({x \in DOMAIN grid : x[2] = 0})
        endI == grid[<<li - 1, 0>>]
        swapped == endI[1] = origin[1]
        farI == origin[1] # 0       \* the origin is at the far end of canonical i
        farJ == origin[2] # 0       \* the origin is at the far end of canonical j
        base == start + (IF farI THEN I - 1 ELSE 0) + (IF farJ THEN (J - 1) * I ELSE 0)
        stepI == IF farI THEN -1 ELSE 1
        stepJ == IF farJ THEN -I ELSE I
    IN IF swapped THEN <<base, stepJ, stepI>> ELSE <<base, stepI, stepJ>>

GnoIdle ==
    /\ nVerts = 1
    /\ vref = [p \in Patches |-> 1]
    /\ lineN = 0
    /\ faceI = 1
    /\ faceJ = 1
    /\ edge_cp = [p \in Patches |-> CanonLine(0)]
    /\ face_cp = [p \in Patches |-> LocalGrid([swap |-> FALSE, revI |-> FALSE, revJ |-> FALSE], 1, 1)]
    /\ vl2g = NoNumbers
    /\ numbered = FALSE

\* a built topology, before numbering
GnoInit ==
    /\ nVerts = MaxVerts
    /\ vref \in [Patches -> 1..nVerts]
    /\ lineN \in 1..MaxInterior
    /\ faceI \in 1..MaxInterior
    /\ faceJ \in 1..MaxInterior
    /\ \E rev \in [Patches -> BOOLEAN] :
         edge_cp = [p \in Patches |->
                      IF rev[p] THEN Reverse(CanonLine(lineN)) ELSE CanonLine(lineN)]
    /\ \E o \in [Patches -> Orientations] :
         face_cp = [p \in Patches |-> LocalGrid(o[p], faceI, faceJ)]
    /\ vl2g = NoNumbers
    /\ numbered = FALSE

\* SplineModel::generateGlobalNumbers
GenerateGlobalNumbers ==
    /\ ~numbered
    /\ vl2g' = [p \in Patches |->
                  LET e == EdgeMap(edge_cp[p], lineN, LineStart(nVerts))
                      f == FaceMap(face_cp[p], faceI, faceJ, FaceStart(nVerts, lineN))
                  IN VolGlobNumber(VertexNumber(vref[p]), e[1], e[2], f[1], f[2], f[3])]
    /\ numbered' = TRUE
    /\ UNCHANGED topoVars

\* the stored affine maps of patch p, evaluated
EdgeGlobal(p, i) == vl2g[p].edge + vl2g[p].edge_incr * i

FaceGlobal(p, i, j) ==
    vl2g[p].surface + vl2g[p].surface_incr_i * i + vl2g[p].surface_incr_j * j

(***************************************************************************)
(* Specifications                                                          *)
(***************************************************************************)
Init == LineInit /\ MainIdle /\ GnoIdle

Next ==
    \/ CallGetLineEnumeration /\ UNCHANGED <<mainVars, gnoVars>>
    \/ CallEquals /\ UNCHANGED <<mainVars, gnoVars>>

\* the calls of Line.cpp
Spec == Init /\ [][Next]_vars

SpecMainInit == LineIdle /\ MainInit /\ GnoIdle

SpecMainNext ==
    \/ ProcessArgument /\ UNCHANGED <<lineVars, gnoVars>>
    \/ EndOfArguments /\ UNCHANGED <<lineVars, gnoVars>>
    \/ EnforceRightHandSystem /\ UNCHANGED <<lineVars, gnoVars>>
    \/ ReadPropertiesFromFile /\ UNCHANGED <<lineVars, gnoVars>>
    \/ InteractiveIteration /\ UNCHANGED <<lineVars, gnoVars>>

\* one run of the driver
SpecMain == SpecMainInit /\ [][SpecMainNext]_vars

SpecGnoInit == LineIdle /\ MainIdle /\ GnoInit

SpecGnoNext ==
    \/ GenerateGlobalNumbers /\ UNCHANGED <<lineVars, mainVars>>

\* numbering a built topology
SpecGno == SpecGnoInit /\ [][SpecGnoNext]_vars

(***************************************************************************)
(* Properties                                                              *)
(***************************************************************************)
EnumReturned == op = "getLineEnumeration" /\ returned

EqualsReturned == op = "equals" /\ returned

\* C1: after generateGlobalNumbers, two patches that share a canonical
\* vertex, line or face get the same global index from their own stored
\* affine maps at every pair of local positions holding the same control
\* point, whatever the relative orientation of their parametrizations.
C1_SharedEntitiesAgree ==
    numbered =>
        \A p \in Patches, q \in Patches :
            /\ vref[p] = vref[q] => vl2g[p].vertex = vl2g[q].vertex
            /\ \A i \in 0..(lineN - 1), j \in 0..(lineN - 1) :
                   edge_cp[p][i + 2] = edge_cp[q][j + 2]
                       => EdgeGlobal(p, i) = EdgeGlobal(q, j)
            /\ \A x \in DOMAIN face_cp[p] :
                   (face_cp[p][x][1] \in 1..faceI /\ face_cp[p][x][2] \in 1..faceJ)
                       => \A y \in DOMAIN face_cp[q] :
                              face_cp[p][x] = face_cp[q][y]
                                  => FaceGlobal(p, x[1] - 1, x[2] - 1)
                                         = FaceGlobal(q, y[1] - 1, y[2] - 1)

\* numbered patches sharing the corner, walking the line in opposite
\* directions and seeing the face with axes swapped and a direction reversed
C1_Witness ==
    /\ numbered
    /\ vref[1] = vref[2]
    /\ lineN = 2
    /\ vl2g[1].edge_incr = 1
    /\ vl2g[2].edge_incr = -1
    /\ faceI = 2
    /\ faceJ = 2
    /\ vl2g[1].surface_incr_i = 1
    /\ vl2g[2].surface_incr_i = -2

\* C2: getLineEnumeration(a, b) = getLineEnumeration(b, a) for all corners
\* a, b in 0..7.
C2_EnumerationSymmetric ==
    EnumReturned => ret = GetLineEnumeration(vert2, vert1)

\* a valid edge asked for with the larger corner first
C2_Witness == EnumReturned /\ vert1 = 6 /\ vert2 = 4 /\ ret = 6

\* C3: for corners in 0..7 the sentinel -1 is returned exactly when
\* |a - b| is not 1, 2 or 4.
C3_SentinelIffBadDifference ==
    EnumReturned => (ret = InvalidLine <=> Abs(vert1 - vert2) \notin {1, 2, 4})

\* a pair of corners at difference 3 answered with the sentinel
C3_Witness == EnumReturned /\ vert1 = 7 /\ vert2 = 4 /\ ret = InvalidLine

\* corner = u + 2v + 4w
BitU(c) == c % 2

BitV(c) == (c \div 2) % 2

BitW(c) == c \div 4

\* the number of the u, v, w bits two corners differ in
BitsApart(a, b) ==
    (IF BitU(a) # BitU(b) THEN 1 ELSE 0)
        + (IF BitV(a) # BitV(b) THEN 1 ELSE 0)
        + (IF BitW(a) # BitW(b) THEN 1 ELSE 0)

\* C4: two corners that no edge of the hexahedron joins (equal, or differing
\* in more than one of the u/v/w bits) get the sentinel, never an edge slot.
C4_NonAdjacentGivesSentinel ==
    (EnumReturned /\ BitsApart(vert1, vert2) # 1) => ret = InvalidLine

\* C5: for every tol > 0 a line equals its own reversed copy.
C5_EqualsReversedCopy ==
    (EqualsReturned /\ tol > 0 /\ l_cp = Reverse(this_cp)) => ret = TRUE

\* C6: lines with different numbers of control points are never equal.
C6_LengthMismatchIsUnequal ==
    (EqualsReturned /\ Len(this_cp) # Len(l_cp)) => ret = FALSE

\* every control point of this within t of the one of l at the same place
AllWithinForward(cp, lcp, t) ==
    \A k \in 1..Len(cp) : Dist(cp[k], lcp[k]) <= t

\* the same with this traversed from its back
AllWithinReversed(cp, lcp, t) ==
    \A k \in 1..Len(cp) : Dist(cp[Len(cp) + 1 - k], lcp[k]) <= t

\* C7: for lines of the same length, equals is true only if in some
\* traversal direction of this line every control point is within tol of
\* the corresponding one of l; and in the direction it compares (forward
\* when l's first point is within tol of this line's first, else reversed)
\* one pair farther apart than tol makes the result false.
C7_TrueOnlyIfADirectionMatches ==
    (EqualsReturned /\ Len(this_cp) = Len(l_cp)) =>
        /\ ret = TRUE =>
               \/ AllWithinForward(this_cp, l_cp, tol)
               \/ AllWithinReversed(this_cp, l_cp, tol)
        /\ ( /\ Dist(l_cp[1], this_cp[1]) < tol
             /\ ~AllWithinForward(this_cp, l_cp, tol) ) => ret = FALSE
        /\ ( /\ ~(Dist(l_cp[1], this_cp[1]) < tol)
             /\ ~AllWithinReversed(this_cp, l_cp, tol) ) => ret = FALSE

\* two different lines of three or more points found equal in the reversed
\* direction
C7_Witness ==
    /\ EqualsReturned
    /\ Len(this_cp) = Len(l_cp)
    /\ Len(this_cp) >= 3
    /\ ret = TRUE
    /\ ~AllWithinForward(this_cp, l_cp, tol)
    /\ AllWithinReversed(this_cp, l_cp, tol)

\* C9: on the 12 edges of the hexahedron (corner pairs differing in exactly
\* one of the u/v/w bits) getLineEnumeration is a bijection onto 0..11: the
\* u-edges go to 0..3, the v-edges to 4..7, the w-edges to 8..11, and no two
\* edges share a slot.
C9_EdgesBijectiveOntoSlots ==
    (EnumReturned /\ BitsApart(vert1, vert2) = 1) =>
        /\ Abs(vert1 - vert2) = 1 => ret \in 0..3
        /\ Abs(vert1 - vert2) = 2 => ret \in 4..7
        /\ Abs(vert1 - vert2) = 4 => ret \in 8..11
        /\ \A a \in Corners, b \in Corners :
               (BitsApart(a, b) = 1 /\ {a, b} # {vert1, vert2})
                   => GetLineEnumeration(a, b) # ret

\* the last v-edge in its slot
C9_Witness == EnumReturned /\ vert1 = 5 /\ vert2 = 7 /\ ret = 7

\* C11: equals is symmetric: for all lines A and B of any lengths and every
\* tol, A.equals(B, tol) and B.equals(A, tol) give the same answer.
C11_EqualsSymmetric ==
    EqualsReturned => ret = Equals(l_cp, this_cp, tol)

\* no property record was read and no property output was written
NoPropertyProcessing == passed = <<>> /\ ~propsFromFile /\ ~propsWritten

\* the exits of processParameters on a usage or patch-file failure
UsageFailure == pc = "exited" /\ exitLine \in {49, 58, 67}

\* the exit of main on a property file that cannot be opened
PropertyFileFailure == pc = "exited" /\ exitLine = 126

\* C8 as stated: every usage or I/O failure ends the process with a non-zero
\* status before orientation enforcement and before property processing,
\* and -help is the only early exit with status 0.
C8_FailuresExitBeforeEnforcement ==
    /\ (UsageFailure \/ PropertyFileFailure) =>
           exitStatus # 0 /\ ~enforced /\ NoPropertyProcessing
    /\ (pc = "exited" /\ exitStatus = 0 /\ ~enforced) => exitLine = 45

\* C8: a usage failure (no patch file read, -in as the last argument, a
\* patch file that cannot be opened) ends the process with a non-zero status
\* before orientation enforcement and before property processing; a -in
\* property file that cannot be opened ends it with a non-zero status before
\* property processing but after orientation enforcement has run; -help is
\* the only exit with status 0 before enforcement.
C8_FailuresExitNonZero ==
    /\ UsageFailure => exitStatus # 0 /\ ~enforced /\ NoPropertyProcessing
    /\ PropertyFileFailure =>
           /\ exitStatus # 0
           /\ enforced
           /\ NoPropertyProcessing
           /\ inFile
           /\ inFileName \notin Openable
    /\ (pc = "exited" /\ exitLine = 49) => argv[Len(argv)] = "-in"
    /\ (pc = "exited" /\ exitLine = 58) =>
           \E k \in 1..Len(argv) : argv[k] \notin Openable \cup {"-v", "-help", "-in"}
    /\ enforced => fileRead
    /\ (pc = "exited" /\ exitStatus = 0 /\ ~enforced) =>
           exitLine = 45 /\ "-help" \in Range(argv)

\* a run that rewrote the patches and then failed to open the property file
C8_Witness == PropertyFileFailure /\ enforced /\ reparamWritten /\ exitStatus = 1

\* the lines of the input: one for each line feed, and one more for
\* characters after the last line feed
LineCount(in) ==
    Cardinality({k \in 1..Len(in) : in[k] = "nl"})
        + (IF Len(in) > 0 /\ in[Len(in)] # "nl" THEN 1 ELSE 0)

\* C10: the interactive loop stops on every finite input: no iteration
\* starts after a read has failed on the exhausted input, and no more lines
\* are handed to readModelProperties than the input has, plus the empty one
\* read at its end.
C10_InteractiveLoopStops ==
    /\ pc = "interactive" => ~cinFail
    /\ Len(passed) <= LineCount(cin) + 1

=============================================================================
